---- MODULE Spec2Model ----
(***************************************************************************)
(* Model of the CQRS / event-sourcing URL shortener of src/src/main.rs:     *)
(* the event store and the stats projection of UrlShortenerService, the    *)
(* ShortLinkAggregate that rehydrates from the store, and the command and   *)
(* query handlers.  Strings (Slug, Url) are sequences of one-character      *)
(* strings so that is_valid_url and generate_random_slug are computed.      *)
(***************************************************************************)
EXTENDS Integers, Sequences, FiniteSets, TLC

VARIABLES events, stats, last, creations, redirected, generated

vars == <<events, stats, last, creations, redirected, generated>>

(* ----------------------------- bounds ---------------------------------- *)

\* longest event log of one slug the model lets a handler produce
MaxLog == 7

\* how many times the model lets the slug generator return one slug
MaxCollide == 1

(* --------------------------- input values ------------------------------ *)

SLUG_GOOGLE_VALID == <<"g", "o", "o", "g">>

SLUG_RAND1 == <<"r", "a", "n", "d", "1">>

URL_GOOGLE_VALID ==
    <<"h", "t", "t", "p", "s", ":", "/", "/", "g", "o", "o", "g", "l", "e", ".", "c", "o", "m">>

URL_OTHER_VALID == <<"h", "t", "t", "p", ":", "/", "/", "a", ".", "b">>

URL_INVALID == <<"i", "n", "v", "a", "l", "i", "d", "-", "u", "r", "l">>

URL_NO_DOT == <<"h", "t", "t", "p", "s", ":", "/", "/", "h", "o", "s", "t">>

URL_EMPTY == <<>>

SlugArgs == {SLUG_GOOGLE_VALID, SLUG_RAND1}

UrlArgs == {URL_GOOGLE_VALID, URL_OTHER_VALID, URL_INVALID, URL_NO_DOT, URL_EMPTY}

\* clock readings (nanoseconds since the epoch) the generator sees
Nanos == {1}

(* Option<Slug> *)
None == <<>>

Some(x) == <<x>>

(* Result<T, ShortenerError> *)
Ok(v) == [ok |-> TRUE, val |-> v]

Err(e) == [ok |-> FALSE, val |-> e]

InvalidUrl == "InvalidUrl"

SlugAlreadyInUse == "SlugAlreadyInUse"

SlugNotFound == "SlugNotFound"

(* ------------------------------ events --------------------------------- *)

ShortLinkCreated(url) == <<"ShortLinkCreated", url>>

ShortLinkRedirected == <<"ShortLinkRedirected">>

Event(slug, event_type) == [slug |-> slug, event_type |-> event_type]

IsCreated(event) == event.event_type[1] = "ShortLinkCreated"

IsRedirected(event) == event.event_type[1] = "ShortLinkRedirected"

ShortLink(slug, url) == [slug |-> slug, url |-> url]

Stats(link, redirects) == [link |-> link, redirects |-> redirects]

(* ------------------------- string functions ---------------------------- *)

starts_with(s, p) == Len(s) >= Len(p) /\ SubSeq(s, 1, Len(p)) = p

contains(s, c) == \E i \in 1..Len(s) : s[i] = c

is_valid_url(url) ==
    /\ url # <<>>
    /\ contains(url, ".")
    /\ \/ starts_with(url, <<"h", "t", "t", "p", ":", "/", "/">>)
       \/ starts_with(url, <<"h", "t", "t", "p", "s", ":", "/", "/">>)

Digit(d) == <<"0", "1", "2", "3", "4", "5", "6", "7", "8", "9">>[d + 1]

RECURSIVE to_string(_)
to_string(n) ==
    IF n < 10 THEN <<Digit(n)>>
    ELSE to_string(n \div 10) \o <<Digit(n % 10)>>

generate_random_slug(now) == <<"r", "a", "n", "d">> \o to_string(now)

(* ------------------- UrlShortenerService as EventBroker ---------------- *)

UrlShortenerService_new == [events |-> <<>>, stats |-> <<>>]

\* publish_event with the projection keeping an entry it already has when a
\* ShortLinkCreated event arrives
publish_event_keep_entry(self, event) ==
    LET key == event.slug
        old == IF key \in DOMAIN self.events THEN self.events[key] ELSE <<>>
        events1 == [k \in DOMAIN self.events \cup {key} |->
                      IF k = key THEN Append(old, event) ELSE self.events[k]]
        stats1 ==
            IF IsCreated(event)
            THEN [k \in DOMAIN self.stats \cup {key} |->
                    IF k = key /\ key \notin DOMAIN self.stats
                    THEN Stats(ShortLink(event.slug, event.event_type[2]), 0)
                    ELSE self.stats[k]]
            ELSE IF key \in DOMAIN self.stats
                 THEN [self.stats EXCEPT ![key].redirects = @ + 1]
                 ELSE self.stats
    IN  [events |-> events1, stats |-> stats1]

\* publish_event counting a redirect for a slug without looking at the entry
\* the replayed creation event has just reset
publish_event_count_log(self, event) ==
    LET key == event.slug
        old == IF key \in DOMAIN self.events THEN self.events[key] ELSE <<>>
        events1 == [k \in DOMAIN self.events \cup {key} |->
                      IF k = key THEN Append(old, event) ELSE self.events[k]]
        stats1 ==
            IF IsCreated(event)
            THEN [k \in DOMAIN self.stats \cup {key} |->
                    IF k = key
                    THEN Stats(ShortLink(event.slug, event.event_type[2]), 0)
                    ELSE self.stats[k]]
            ELSE IF key \in DOMAIN self.stats
                 THEN [self.stats EXCEPT ![key].redirects =
                         Cardinality({i \in 1..Len(events1[key]) : IsRedirected(events1[key][i])})]
                 ELSE self.stats
    IN  [events |-> events1, stats |-> stats1]

\* publish_event storing a ShortLinkCreated event without inserting the
\* stats entry
publish_event_no_insert(self, event) ==
    LET key == event.slug
        old == IF key \in DOMAIN self.events THEN self.events[key] ELSE <<>>
        events1 == [k \in DOMAIN self.events \cup {key} |->
                      IF k = key THEN Append(old, event) ELSE self.events[k]]
        stats1 ==
            IF IsCreated(event) THEN self.stats
            ELSE IF key \in DOMAIN self.stats
                 THEN [self.stats EXCEPT ![key].redirects = @ + 1]
                 ELSE self.stats
    IN  [events |-> events1, stats |-> stats1]

\* publish_event inserting the event as the slug's log instead of pushing it
publish_event_replace_log(self, event) ==
    LET key == event.slug
        events1 == [k \in DOMAIN self.events \cup {key} |->
                      IF k = key THEN <<event>> ELSE self.events[k]]
        stats1 ==
            IF IsCreated(event)
            THEN [k \in DOMAIN self.stats \cup {key} |->
                    IF k = key
                    THEN Stats(ShortLink(event.slug, event.event_type[2]), 0)
                    ELSE self.stats[k]]
            ELSE IF key \in DOMAIN self.stats
                 THEN [self.stats EXCEPT ![key].redirects = @ + 1]
                 ELSE self.stats
    IN  [events |-> events1, stats |-> stats1]

\* publish_event building a new stats map for a ShortLinkCreated event, which
\* drops the entries of the other slugs
publish_event_clear_stats(self, event) ==
    LET key == event.slug
        old == IF key \in DOMAIN self.events THEN self.events[key] ELSE <<>>
        events1 == [k \in DOMAIN self.events \cup {key} |->
                      IF k = key THEN Append(old, event) ELSE self.events[k]]
        stats1 ==
            IF IsCreated(event)
            THEN [k \in {key} |-> Stats(ShortLink(event.slug, event.event_type[2]), 0)]
            ELSE IF key \in DOMAIN self.stats
                 THEN [self.stats EXCEPT ![key].redirects = @ + 1]
                 ELSE self.stats
    IN  [events |-> events1, stats |-> stats1]

publish_event(self, event) ==
    LET key == event.slug
        old == IF key \in DOMAIN self.events THEN self.events[key] ELSE <<>>
        events1 == [k \in DOMAIN self.events \cup {key} |->
                      IF k = key THEN Append(old, event) ELSE self.events[k]]
        stats1 ==
            IF IsCreated(event)
            THEN [k \in DOMAIN self.stats \cup {key} |->
                    IF k = key
                    THEN Stats(ShortLink(event.slug, event.event_type[2]), 0)
                    ELSE self.stats[k]]
            ELSE IF key \in DOMAIN self.stats
                 THEN [self.stats EXCEPT ![key].redirects = @ + 1]
                 ELSE self.stats
    IN  [events |-> events1, stats |-> stats1]

iter_by_slug(self, slug) ==
    IF slug \in DOMAIN self.events THEN self.events[slug] ELSE <<>>

get_stats(self, slug) ==
    IF slug \in DOMAIN self.stats THEN Ok(self.stats[slug]) ELSE Err(SlugNotFound)

(* -------------------------- ShortLinkAggregate ------------------------- *)

ShortLinkAggregate_new(eb) == [broker |-> eb, state |-> ShortLink(<<>>, <<>>)]

\* apply_event folding the event into the aggregate without publishing it
apply_event_no_publish(agg, event) ==
    [broker |-> agg.broker,
     state  |-> IF IsCreated(event)
                THEN ShortLink(event.slug, event.event_type[2])
                ELSE agg.state]

apply_event(agg, event) ==
    [broker |-> publish_event(agg.broker, event),
     state  |-> IF IsCreated(event)
                THEN ShortLink(event.slug, event.event_type[2])
                ELSE agg.state]

\* the for loop of rehydrate_by_slug over the vector iter_by_slug returned
RECURSIVE rehydrate_loop(_, _, _)
rehydrate_loop(agg, evs, i) ==
    IF i > Len(evs) THEN agg
    ELSE rehydrate_loop(apply_event(agg, evs[i]), evs, i + 1)

\* rehydrate_by_slug that sets the slug and skips the replay
rehydrate_by_slug_no_fold(agg, slug) == [agg EXCEPT !.state.slug = slug]

rehydrate_by_slug(agg, slug) ==
    LET agg1 == [agg EXCEPT !.state.slug = slug]
    IN  rehydrate_loop(agg1, iter_by_slug(agg1.broker, slug), 1)

create_random_slug(agg, now) ==
    [agg EXCEPT !.state.slug = generate_random_slug(now)]

\* create_short_link without the check for an existing link
create_short_link_unchecked(agg, url) ==
    IF ~is_valid_url(url) THEN [agg |-> agg, result |-> Err(InvalidUrl)]
    ELSE LET agg1 == apply_event(agg, Event(agg.state.slug, ShortLinkCreated(url)))
         IN  [agg |-> agg1, result |-> Ok(agg1.state)]

\* create_short_link validating the URL only after the event was applied
create_short_link_publish_first(agg, url) ==
    IF agg.state.url # <<>> THEN [agg |-> agg, result |-> Err(SlugAlreadyInUse)]
    ELSE LET agg1 == apply_event(agg, Event(agg.state.slug, ShortLinkCreated(url)))
         IN  IF ~is_valid_url(url) THEN [agg |-> agg1, result |-> Err(InvalidUrl)]
             ELSE [agg |-> agg1, result |-> Ok(agg1.state)]

create_short_link(agg, url) ==
    IF agg.state.url # <<>> THEN [agg |-> agg, result |-> Err(SlugAlreadyInUse)]
    ELSE IF ~is_valid_url(url) THEN [agg |-> agg, result |-> Err(InvalidUrl)]
    ELSE LET agg1 == apply_event(agg, Event(agg.state.slug, ShortLinkCreated(url)))
         IN  [agg |-> agg1, result |-> Ok(agg1.state)]

\* redirect without the check for a missing link
redirect_unchecked(agg) ==
    LET agg1 == apply_event(agg, Event(agg.state.slug, ShortLinkRedirected))
    IN  [agg |-> agg1, result |-> Ok(agg1.state)]

redirect(agg) ==
    IF agg.state.url = <<>> THEN [agg |-> agg, result |-> Err(SlugNotFound)]
    ELSE LET agg1 == apply_event(agg, Event(agg.state.slug, ShortLinkRedirected))
         IN  [agg |-> agg1, result |-> Ok(agg1.state)]

(* --------------------------- command handlers -------------------------- *)

handle_create_short_link(self, url, slug, now) ==
    LET agg0 == ShortLinkAggregate_new(self)
        agg1 == IF slug # None THEN rehydrate_by_slug(agg0, slug[1])
                ELSE create_random_slug(agg0, now)
    IN  create_short_link(agg1, url)

handle_redirect(self, slug) ==
    redirect(rehydrate_by_slug(ShortLinkAggregate_new(self), slug))

(* ------------------------------ the state ------------------------------ *)

Service == [events |-> events, stats |-> stats]

AllSlugs == SlugArgs \cup {generate_random_slug(n) : n \in Nanos}

LogBound(evmap) == \A k \in DOMAIN evmap : Len(evmap[k]) <= MaxLog

CREATE == "handle_create_short_link"

REDIRECT == "handle_redirect"

STATS == "get_stats"

REHYDRATE == "rehydrate_by_slug"

Call(op, url, slug, now, result, state) ==
    [op |-> op, url |-> url, slug |-> slug, now |-> now,
     result |-> result, state |-> state]

Init ==
    /\ events = UrlShortenerService_new.events
    /\ stats = UrlShortenerService_new.stats
    /\ last = Call("new", <<>>, None, 0, Ok(<<>>), ShortLink(<<>>, <<>>))
    /\ creations = [s \in AllSlugs |-> <<>>]
    /\ redirected = [s \in AllSlugs |-> 0]
    /\ generated = [s \in AllSlugs |-> 0]

\* commands::CommandHandler::handle_create_short_link, with the clock reading
\* the generator takes when no slug is supplied
HandleCreateShortLink ==
    \E url \in UrlArgs, slug \in {None} \cup {Some(s) : s \in SlugArgs} :
      \E now \in IF slug = None THEN Nanos ELSE {0} :
        LET r == handle_create_short_link(Service, url, slug, now)
            target == r.agg.state.slug
        IN  /\ slug = None => generated[target] < MaxCollide
            /\ LogBound(r.agg.broker.events)
            /\ events' = r.agg.broker.events
            /\ stats' = r.agg.broker.stats
            /\ last' = Call(CREATE, url, slug, now, r.result, r.agg.state)
            /\ creations' = IF r.result.ok
                            THEN [creations EXCEPT ![target] = Append(@, url)]
                            ELSE creations
            /\ generated' = IF slug = None
                            THEN [generated EXCEPT ![target] = @ + 1]
                            ELSE generated
            /\ UNCHANGED redirected

\* commands::CommandHandler::handle_redirect
HandleRedirect ==
    \E slug \in SlugArgs :
        LET r == handle_redirect(Service, slug)
        IN  /\ LogBound(r.agg.broker.events)
            /\ events' = r.agg.broker.events
            /\ stats' = r.agg.broker.stats
            /\ last' = Call(REDIRECT, <<>>, Some(slug), 0, r.result, r.agg.state)
            /\ redirected' = IF r.result.ok
                             THEN [redirected EXCEPT ![slug] = @ + 1]
                             ELSE redirected
            /\ UNCHANGED <<creations, generated>>

\* queries::QueryHandler::get_stats
GetStats ==
    \E slug \in SlugArgs :
        /\ last' = Call(STATS, <<>>, Some(slug), 0, get_stats(Service, slug),
                        ShortLink(<<>>, <<>>))
        /\ UNCHANGED <<events, stats, creations, redirected, generated>>

\* a fresh aggregate rehydrated for a slug, with no command issued on it
Rehydrate ==
    \E slug \in SlugArgs :
        LET agg == rehydrate_by_slug(ShortLinkAggregate_new(Service), slug)
        IN  /\ LogBound(agg.broker.events)
            /\ events' = agg.broker.events
            /\ stats' = agg.broker.stats
            /\ last' = Call(REHYDRATE, <<>>, Some(slug), 0, Ok(<<>>), agg.state)
            /\ UNCHANGED <<creations, redirected, generated>>

Next == HandleCreateShortLink \/ HandleRedirect \/ GetStats \/ Rehydrate

Spec == Init /\ [][Next]_vars

(* ------------------------- reading the state --------------------------- *)

\* the service after the step
ServiceNext == [events |-> events', stats |-> stats']

\* the URL of the latest successful creation of slug s, empty when there is none
LatestUrl(s) == IF creations[s] = <<>> THEN <<>> ELSE creations[s][Len(creations[s])]

HasCreatedEvent(self, s) ==
    \E i \in 1..Len(iter_by_slug(self, s)) : IsCreated(iter_by_slug(self, s)[i])

(* ------------------------------- claims -------------------------------- *)

\* C1: once a create on slug s has returned Ok, every later create with
\* Some(s) returns Err(SlugAlreadyInUse), for any URL argument.
C1_CreationUniqueness ==
    [][\A s \in SlugArgs :
         (creations[s] # <<>> /\ last'.op = CREATE /\ last'.slug = Some(s))
            => last'.result = Err(SlugAlreadyInUse)]_vars

\* a rejected create with an invalid URL on a slug that was created and
\* redirected, after the generator has been used
C1_Witness ==
    /\ last.op = CREATE /\ last.slug = Some(SLUG_GOOGLE_VALID)
    /\ last.url = URL_INVALID
    /\ last.result = Err(SlugAlreadyInUse)
    /\ creations[SLUG_GOOGLE_VALID] = <<URL_GOOGLE_VALID>>
    /\ redirected[SLUG_GOOGLE_VALID] >= 1
    /\ generated[SLUG_RAND1] >= 1

\* C2: every redirect that returns Ok leaves get_stats(s).redirects exactly
\* one greater than before the call, and no operation that names its slug
\* makes the count reported for any slug smaller.
C2_RedirectMonotonicity ==
    [][\A s \in AllSlugs :
         /\ (last'.op = REDIRECT /\ last'.slug = Some(s) /\ last'.result.ok
                /\ creations[s] # <<>>)
               => /\ get_stats(Service, s).ok
                  /\ get_stats(ServiceNext, s).ok
                  /\ get_stats(ServiceNext, s).val.redirects
                       = get_stats(Service, s).val.redirects + 1
         /\ (last'.slug # None /\ get_stats(Service, s).ok)
               => /\ get_stats(ServiceNext, s).ok
                  /\ get_stats(ServiceNext, s).val.redirects
                       >= get_stats(Service, s).val.redirects]_vars

\* the second successful redirect of a slug
C2_Witness ==
    /\ last.op = REDIRECT /\ last.slug = Some(SLUG_GOOGLE_VALID) /\ last.result.ok
    /\ get_stats(Service, SLUG_GOOGLE_VALID).ok
    /\ get_stats(Service, SLUG_GOOGLE_VALID).val.redirects = 2

\* C3: after a successful create of s with URL u and n successful redirects
\* of s, with only explicitly named operations on s, get_stats(s) returns
\* Stats{link: {s, u}, redirects: n}.
C3_StatsAfterRedirects ==
    \A s \in AllSlugs :
        (Len(creations[s]) = 1 /\ generated[s] = 0)
            => get_stats(Service, s)
                 = Ok(Stats(ShortLink(s, creations[s][1]), redirected[s]))

\* the demo's count: create, two redirects, then get_stats, while another
\* explicitly named alias has been created and replayed
C3_Witness ==
    /\ last.op = STATS /\ last.slug = Some(SLUG_GOOGLE_VALID)
    /\ last.result = Ok(Stats(ShortLink(SLUG_GOOGLE_VALID, URL_GOOGLE_VALID), 2))
    /\ redirected[SLUG_GOOGLE_VALID] = 2
    /\ Len(events[SLUG_GOOGLE_VALID]) = 7
    /\ generated[SLUG_RAND1] = 0
    /\ SLUG_RAND1 \in DOMAIN events
    /\ Len(events[SLUG_RAND1]) >= 2

\* C4: a create or redirect that returns an error leaves the event log and
\* the stats projection as they were.
C4_FailedCallChangesNothing ==
    [][(last'.op \in {CREATE, REDIRECT} /\ ~last'.result.ok)
          => (events' = events /\ stats' = stats)]_vars

\* C5: a create with no slug whose generated slug already has a creation
\* event returns Err(SlugAlreadyInUse) and leaves the existing stats entry.
C5_GeneratedCollisionRejected ==
    [][(last'.op = CREATE /\ last'.slug = None
            /\ HasCreatedEvent(Service, last'.state.slug))
          => /\ last'.result = Err(SlugAlreadyInUse)
             /\ get_stats(ServiceNext, last'.state.slug)
                  = get_stats(Service, last'.state.slug)]_vars

\* C6: for a slug that was never successfully created, handle_redirect and
\* get_stats both return Err(SlugNotFound), and the failed redirect leaves
\* the service as it was.
C6_UnknownSlugNotFound ==
    \A s \in AllSlugs :
        creations[s] = <<>>
            => /\ get_stats(Service, s) = Err(SlugNotFound)
               /\ handle_redirect(Service, s).result = Err(SlugNotFound)
               /\ handle_redirect(Service, s).agg.broker = Service

\* a redirect of an unknown slug just failed while another slug is in use
C6_Witness ==
    /\ last.op = REDIRECT /\ last.slug = Some(SLUG_GOOGLE_VALID)
    /\ last.result = Err(SlugNotFound)
    /\ creations[SLUG_GOOGLE_VALID] = <<>>
    /\ redirected[SLUG_RAND1] >= 1

\* C7: a create with a valid url and a slug s that has no events returns
\* Ok(ShortLink{s, url}), leaves the log of s holding exactly one
\* ShortLinkCreated(url) event and makes get_stats(s) return redirects 0.
C7_CreateFreshSlug ==
    [][\A s \in SlugArgs :
         (last'.op = CREATE /\ last'.slug = Some(s) /\ is_valid_url(last'.url)
            /\ iter_by_slug(Service, s) = <<>>)
          => /\ last'.result = Ok(ShortLink(s, last'.url))
             /\ iter_by_slug(ServiceNext, s) = <<Event(s, ShortLinkCreated(last'.url))>>
             /\ get_stats(ServiceNext, s) = Ok(Stats(ShortLink(s, last'.url), 0))]_vars

\* a fresh slug was just created with the http URL while another slug has
\* already been redirected
C7_Witness ==
    /\ last.op = CREATE /\ last.slug = Some(SLUG_GOOGLE_VALID)
    /\ last.url = URL_OTHER_VALID
    /\ last.result = Ok(ShortLink(SLUG_GOOGLE_VALID, URL_OTHER_VALID))
    /\ Len(events[SLUG_GOOGLE_VALID]) = 1
    /\ redirected[SLUG_RAND1] >= 1

\* C8: after a successful create of s with URL u, every redirect of s
\* returns Ok(ShortLink{s, u}).
C8_RedirectReturnsCreatedLink ==
    [][\A s \in SlugArgs :
         (last'.op = REDIRECT /\ last'.slug = Some(s) /\ creations[s] # <<>>)
          => \A i \in 1..Len(creations[s]) :
                last'.result = Ok(ShortLink(s, creations[s][i]))]_vars

\* C9: a create that returns Err(InvalidUrl) leaves the log and the
\* projection unchanged and the slug it named unknown; a create of an
\* unknown slug with a valid URL succeeds.
C9_InvalidUrlStep ==
    (last'.op = CREATE /\ last'.result = Err(InvalidUrl))
       => /\ events' = events
          /\ stats' = stats
          /\ ~is_valid_url(last'.url)
          /\ last'.slug # None
               => /\ get_stats(ServiceNext, last'.slug[1]) = Err(SlugNotFound)
                  /\ iter_by_slug(ServiceNext, last'.slug[1]) = <<>>
                  /\ creations'[last'.slug[1]] = <<>>

C9_UnknownSlugCreatable ==
    \A s \in SlugArgs, u \in UrlArgs :
        (creations[s] = <<>> /\ is_valid_url(u))
            => handle_create_short_link(Service, u, Some(s), 0).result
                 = Ok(ShortLink(s, u))

C9_InvalidUrlNoEffect == [][C9_InvalidUrlStep]_vars /\ []C9_UnknownSlugCreatable

\* a create naming a slug was just rejected for its URL while the service
\* already holds another link
C9_Witness ==
    /\ last.op = CREATE /\ last.slug = Some(SLUG_GOOGLE_VALID)
    /\ last.result = Err(InvalidUrl)
    /\ last.url = URL_NO_DOT
    /\ redirected[SLUG_RAND1] >= 1

\* C10: rehydrating a fresh aggregate for a slug yields ShortLink{slug, url}
\* with the URL of the slug's (latest) creation, or the empty URL when it was
\* never created, and a rehydration directly after another one of the same
\* slug yields the same state.
C10_IdempotentReplay ==
    [][last'.op = REHYDRATE
          => /\ last'.state = ShortLink(last'.slug[1], LatestUrl(last'.slug[1]))
             /\ (last.op = REHYDRATE /\ last.slug = last'.slug)
                   => last'.state = last.state]_vars

\* a rehydration of a created slug whose log [C] has been replayed twice
C10_Witness ==
    /\ last.op = REHYDRATE /\ last.slug = Some(SLUG_GOOGLE_VALID)
    /\ last.state = ShortLink(SLUG_GOOGLE_VALID, URL_GOOGLE_VALID)
    /\ Len(events[SLUG_GOOGLE_VALID]) = 4
    /\ redirected[SLUG_GOOGLE_VALID] = 0

(* --------------------------- reading the log --------------------------- *)

CountRedirected(evs) == Cardinality({i \in 1..Len(evs) : IsRedirected(evs[i])})

CountCreated(evs) == Cardinality({i \in 1..Len(evs) : IsCreated(evs[i])})

\* index of the last ShortLinkCreated event of a log, 0 when it has none
LastCreatedIndex(evs) ==
    IF CountCreated(evs) = 0 THEN 0
    ELSE CHOOSE i \in 1..Len(evs) :
            IsCreated(evs[i]) /\ \A j \in (i + 1)..Len(evs) : ~IsCreated(evs[j])

RedirectedAfterLastCreated(evs) ==
    Cardinality({i \in (LastCreatedIndex(evs) + 1)..Len(evs) : IsRedirected(evs[i])})

IsPrefix(a, b) == Len(a) <= Len(b) /\ SubSeq(b, 1, Len(a)) = a

\* C11: for every alias with a stats entry, redirects equals the total
\* number of ShortLinkRedirected events stored in the log of the alias.
C11_RedirectsEqualLogCount ==
    \A s \in DOMAIN stats :
        stats[s].redirects = CountRedirected(iter_by_slug(Service, s))

\* C12: the event log of every alias holds at most one ShortLinkCreated
\* event.
C12_AtMostOneCreated ==
    \A s \in AllSlugs : CountCreated(iter_by_slug(Service, s)) <= 1

\* C13: an alias has a stats entry if and only if its log holds a
\* ShortLinkCreated event, and handle_redirect returns SlugNotFound exactly
\* when get_stats does.
C13_ProjectionMatchesLog ==
    \A s \in AllSlugs :
        /\ (s \in DOMAIN stats) <=> HasCreatedEvent(Service, s)
        /\ handle_redirect(Service, s).result.ok <=> get_stats(Service, s).ok
        /\ ~get_stats(Service, s).ok
              => /\ get_stats(Service, s).val = SlugNotFound
                 /\ handle_redirect(Service, s).result.val = SlugNotFound

\* one alias is known to both the log and the projection, with redirects and
\* a replayed creation event, while get_stats just failed for the other one
C13_Witness ==
    /\ last.op = STATS /\ last.slug = Some(SLUG_GOOGLE_VALID)
    /\ last.result = Err(SlugNotFound)
    /\ SLUG_GOOGLE_VALID \notin DOMAIN events
    /\ SLUG_RAND1 \in DOMAIN stats
    /\ redirected[SLUG_RAND1] >= 1
    /\ CountCreated(events[SLUG_RAND1]) >= 2

\* C14: the event log is append-only: for every alias and every operation,
\* the alias's log before the operation is a prefix of its log after it.
C14_AppendOnly ==
    [][\A s \in AllSlugs :
         IsPrefix(iter_by_slug(Service, s), iter_by_slug(ServiceNext, s))]_vars

\* a rejected create has just replayed a log that already held a redirect
C14_Witness ==
    /\ last.op = CREATE /\ last.slug = Some(SLUG_GOOGLE_VALID)
    /\ last.result = Err(SlugAlreadyInUse)
    /\ Len(events[SLUG_GOOGLE_VALID]) = 6
    /\ redirected[SLUG_GOOGLE_VALID] = 1

\* C15: once get_stats(s) returns Ok, no explicitly-slugged create, redirect
\* or query removes the entry or changes its link, and the link is {s, u}
\* with u the URL of the successful creation.
C15_ExplicitStep ==
    last'.slug # None
       => \A s \in AllSlugs :
             get_stats(Service, s).ok
                => /\ get_stats(ServiceNext, s).ok
                   /\ get_stats(ServiceNext, s).val.link = get_stats(Service, s).val.link

C15_LinkIsCreation ==
    \A s \in AllSlugs :
        (get_stats(Service, s).ok /\ generated[s] = 0)
            => /\ Len(creations[s]) = 1
               /\ get_stats(Service, s).val.link = ShortLink(s, creations[s][1])

C15_CreatedStaysCreated == [][C15_ExplicitStep]_vars /\ []C15_LinkIsCreation

\* get_stats succeeds on an alias whose creation event was replayed once
\* without a redirect and once by a redirect (its log is [C, C, C, C, R])
C15_Witness ==
    /\ last.op = STATS /\ last.slug = Some(SLUG_GOOGLE_VALID)
    /\ last.result.ok
    /\ last.result.val.link = ShortLink(SLUG_GOOGLE_VALID, URL_OTHER_VALID)
    /\ Len(events[SLUG_GOOGLE_VALID]) = 5
    /\ redirected[SLUG_GOOGLE_VALID] = 1

\* C16: rehydrating an alias whose log is L leaves the log L, L; a successful
\* handle_redirect leaves it L, L, ShortLinkRedirected (length 2*|L|+1).
C16_RehydrationRepublishes ==
    [][/\ last'.op = REHYDRATE
            => iter_by_slug(ServiceNext, last'.slug[1])
                 = iter_by_slug(Service, last'.slug[1]) \o iter_by_slug(Service, last'.slug[1])
       /\ (last'.op = REDIRECT /\ last'.result.ok)
            => /\ iter_by_slug(ServiceNext, last'.slug[1])
                    = iter_by_slug(Service, last'.slug[1])
                        \o iter_by_slug(Service, last'.slug[1])
                        \o <<Event(last'.slug[1], ShortLinkRedirected)>>
               /\ Len(iter_by_slug(ServiceNext, last'.slug[1]))
                    = 2 * Len(iter_by_slug(Service, last'.slug[1])) + 1
               /\ Len(iter_by_slug(Service, last'.slug[1])) >= 1]_vars

\* the second successful redirect of an alias: [C] -> [C, C, R] -> 7 events
C16_Witness ==
    /\ last.op = REDIRECT /\ last.slug = Some(SLUG_GOOGLE_VALID) /\ last.result.ok
    /\ Len(events[SLUG_GOOGLE_VALID]) = 7
    /\ redirected[SLUG_GOOGLE_VALID] = 2

\* C17: once an alias has been rehydrated more than once with a redirect in
\* its log, the projection double-counts: get_stats(alias).redirects is
\* greater than the number of handle_redirect calls on it that returned Ok.
C17_DoubleCounts ==
    \A s \in DOMAIN stats :
        redirected[s] >= 2 => stats[s].redirects > redirected[s]

\* C17 (amended): replaying the log never makes the projection count more
\* than the successful redirects: in every reachable state
\* get_stats(alias).redirects is at most the number of handle_redirect calls
\* on the alias that returned Ok.
C17_NoDoubleCount ==
    \A s \in DOMAIN stats : stats[s].redirects <= redirected[s]

\* the second redirect re-applied the first one: the log holds three
\* ShortLinkRedirected events and the projection counts two
C17_Witness ==
    /\ last.op = REDIRECT /\ last.slug = Some(SLUG_GOOGLE_VALID) /\ last.result.ok
    /\ redirected[SLUG_GOOGLE_VALID] = 2
    /\ CountRedirected(events[SLUG_GOOGLE_VALID]) = 3
    /\ stats[SLUG_GOOGLE_VALID].redirects = 2

\* the events a step has pushed onto the log of slug s
Published(s) ==
    SubSeq(iter_by_slug(ServiceNext, s),
           Len(iter_by_slug(Service, s)) + 1, Len(iter_by_slug(ServiceNext, s)))

\* publishing evs[i..] one after the other starting from self meets a
\* ShortLinkRedirected event whose slug has no stats entry
RECURSIVE FoldedWithoutEntry(_, _, _)
FoldedWithoutEntry(self, evs, i) ==
    /\ i <= Len(evs)
    /\ \/ IsRedirected(evs[i]) /\ evs[i].slug \notin DOMAIN self.stats
       \/ FoldedWithoutEntry(publish_event(self, evs[i]), evs, i + 1)

\* C18: every non-empty log starts with a ShortLinkCreated event of its
\* alias, so every ShortLinkRedirected event has one before it, and no
\* redirect event is folded into the projection while the alias has no entry.
C18_LogStartsCreated ==
    \A s \in AllSlugs :
        LET log == iter_by_slug(Service, s)
        IN  /\ log # <<>> => (IsCreated(log[1]) /\ s \in DOMAIN stats)
            /\ \A i \in 1..Len(log) :
                  /\ log[i].slug = s
                  /\ IsRedirected(log[i]) => \E j \in 1..(i - 1) : IsCreated(log[j])

C18_FoldStep == \A s \in AllSlugs : ~FoldedWithoutEntry(Service, Published(s), 1)

C18_RedirectedAfterCreated == []C18_LogStartsCreated /\ [][C18_FoldStep]_vars

\* a redirect has just replayed a log that holds redirect events and pushed a
\* new one
C18_Witness ==
    /\ last.op = REDIRECT /\ last.slug = Some(SLUG_RAND1) /\ last.result.ok
    /\ CountRedirected(events[SLUG_RAND1]) = 3
    /\ IsCreated(events[SLUG_RAND1][1])

\* C19: for every alias with a stats entry, redirects equals the number of
\* ShortLinkRedirected events after the last ShortLinkCreated event of the
\* alias's log.
C19_RedirectsSinceLastCreated ==
    \A s \in DOMAIN stats :
        stats[s].redirects = RedirectedAfterLastCreated(iter_by_slug(Service, s))

\* a rejected create replayed [C, C, R]: the log holds two redirect events,
\* one of them after the last creation event
C19_Witness ==
    /\ last.op = CREATE /\ last.slug = Some(SLUG_GOOGLE_VALID)
    /\ last.result = Err(SlugAlreadyInUse)
    /\ Len(events[SLUG_GOOGLE_VALID]) = 6
    /\ CountRedirected(events[SLUG_GOOGLE_VALID]) = 2
    /\ stats[SLUG_GOOGLE_VALID].redirects = 1

\* C20: a create with Some(a), a redirect of a or a get_stats(a) leaves the
\* event log and the stats entry of every other alias unchanged.
C20_OtherAliasesUntouched ==
    [][\A a \in SlugArgs :
         last'.slug = Some(a)
            => \A b \in AllSlugs \ {a} :
                  /\ iter_by_slug(ServiceNext, b) = iter_by_slug(Service, b)
                  /\ (b \in DOMAIN events') <=> (b \in DOMAIN events)
                  /\ (b \in DOMAIN stats') <=> (b \in DOMAIN stats)
                  /\ b \in DOMAIN stats => stats'[b] = stats[b]]_vars

\* a create of one alias succeeded while the other one already has a log
\* with redirects
C20_Witness ==
    /\ last.op = CREATE /\ last.slug = Some(SLUG_GOOGLE_VALID) /\ last.result.ok
    /\ SLUG_RAND1 \in DOMAIN stats
    /\ stats[SLUG_RAND1].redirects = 2
    /\ Len(events[SLUG_RAND1]) = 7

====
